---- MODULE Spec2Model ----
(***************************************************************************)
(* A model of src/script.py: the type-inference helpers                    *)
(* (detect_date_or_timestamp, normalize_datetime_value,                    *)
(* get_value_type_level, get_column_types) and the control flow of         *)
(* sync_to_db.                                                             *)
(*                                                                         *)
(* Text is a sequence of one-character strings, so that strip, the float   *)
(* grammar, the ISO regular expression, strptime and isoformat are         *)
(* computed character by character as the library routines compute them.   *)
(* A cell value is a record: [t |-> "null"] for None, [t |-> "str", s]     *)
(* for a JSON string and [t |-> "num", s] for a JSON number, s being the   *)
(* text str() renders for it.                                              *)
(***************************************************************************)
EXTENDS Integers, Sequences, FiniteSets, TLC

\* ------------------------------------------------------------------------
\* Characters and text
\* ------------------------------------------------------------------------

Digits == {"0", "1", "2", "3", "4", "5", "6", "7", "8", "9"}

Letters ==
    {"a", "b", "c", "d", "e", "f", "g", "h", "i", "j", "k", "l", "m",
     "n", "o", "p", "q", "r", "s", "t", "u", "v", "w", "x", "y", "z",
     "A", "B", "C", "D", "E", "F", "G", "H", "I", "J", "K", "L", "M",
     "N", "O", "P", "Q", "R", "S", "T", "U", "V", "W", "X", "Y", "Z"}

Whitespace == {" ", "\t", "\n", "\r"}

DigitVal(c) ==
    CASE c = "0" -> 0 [] c = "1" -> 1 [] c = "2" -> 2 [] c = "3" -> 3
      [] c = "4" -> 4 [] c = "5" -> 5 [] c = "6" -> 6 [] c = "7" -> 7
      [] c = "8" -> 8 [] c = "9" -> 9

DigitChar(n) ==
    CASE n = 0 -> "0" [] n = 1 -> "1" [] n = 2 -> "2" [] n = 3 -> "3"
      [] n = 4 -> "4" [] n = 5 -> "5" [] n = 6 -> "6" [] n = 7 -> "7"
      [] n = 8 -> "8" [] n = 9 -> "9"

\* The letters the float grammar reads case-insensitively.
Lower(c) ==
    CASE c = "I" -> "i" [] c = "N" -> "n" [] c = "F" -> "f" [] c = "T" -> "t"
      [] c = "Y" -> "y" [] c = "A" -> "a" [] c = "E" -> "e"
      [] OTHER -> c

LowerText(s) == [i \in 1..Len(s) |-> Lower(s[i])]

Drop(s, n) == SubSeq(s, n + 1, Len(s))

Take(s, n) == SubSeq(s, 1, n)

\* F of the value of x.  x is evaluated once, here, and F works on the
\* result; a name bound by LET is evaluated again wherever it is used.
WithValue(x, F(_)) == CHOOSE r \in {F(v) : v \in {x}} : TRUE

Min(S) == CHOOSE i \in S : \A j \in S : i <= j

Max(S) == CHOOSE i \in S : \A j \in S : i >= j

AllDigits(s) == \A i \in 1..Len(s) : s[i] \in Digits

Contains(s, c) == \E i \in 1..Len(s) : s[i] = c

\* Index of the first character of s that lies in cs, 0 if there is none.
FirstIn(s, cs) ==
    WithValue({i \in 1..Len(s) : s[i] \in cs},
              LAMBDA hits : IF hits = {} THEN 0 ELSE Min(hits))

\* str.strip()
strip(s) ==
    WithValue({i \in 1..Len(s) : s[i] \notin Whitespace},
              LAMBDA keep : IF keep = {} THEN <<>> ELSE SubSeq(s, Min(keep), Max(keep)))

\* str.isalnum() of one character
isalnum(c) == c \in Digits \/ c \in Letters

\* "".join(c if c.isalnum() else '_' for c in name)
sanitize(name) == [i \in 1..Len(name) |-> IF isalnum(name[i]) THEN name[i] ELSE "_"]

\* The number the first n characters of s, all digits, denote.
RECURSIVE NatUpTo(_, _)
NatUpTo(s, n) == IF n = 0 THEN 0 ELSE 10 * NatUpTo(s, n - 1) + DigitVal(s[n])

NatOf(s) == NatUpTo(s, Len(s))

\* n rendered with exactly w digits (n < 10^w).
Pad(n, w) == [i \in 1..w |-> DigitChar((n \div (10 ^ (w - i))) % 10)]

\* Values ------------------------------------------------------------------

None == [t |-> "null"]

Str(s) == [t |-> "str", s |-> s]

Num(s) == [t |-> "num", s |-> s]

\* str(value) of a value that is not None
str(v) == v.s

isinstance_str(v) == v.t = "str"

\* ------------------------------------------------------------------------
\* float(text), as the classifier uses it (src/script.py:119, 125)
\* ------------------------------------------------------------------------

\* A run of digits that may hold single underscores between digits.
DigitGroup(q) ==
    /\ q # <<>>
    /\ q[1] \in Digits
    /\ q[Len(q)] \in Digits
    /\ \A i \in 1..Len(q) : q[i] \in Digits \cup {"_"}
    /\ \A i \in 1..(Len(q) - 1) : ~(q[i] = "_" /\ q[i + 1] = "_")

IsDigitChar(c) == c \in Digits

OnlyDigits(q) == SelectSeq(q, IsDigitChar)

\* s without its leading zeros
StripZeros(s) ==
    WithValue({i \in 1..Len(s) : s[i] # "0"},
              LAMBDA nz : IF nz = {} THEN <<>> ELSE Drop(s, Min(nz) - 1))

\* The number of zeros s ends with.
TrailingZeros(s) ==
    WithValue({i \in 1..Len(s) : s[i] # "0"},
              LAMBDA nz : IF nz = {} THEN Len(s) ELSE Len(s) - Max(nz))

\* The i-th digit of the decimal fraction 0.a
DigitAt(a, i) == IF i <= Len(a) THEN DigitVal(a[i]) ELSE 0

\* 0.a against 0.b as decimal fractions: -1, 0 or 1.
CmpDigits(a, b) ==
    WithValue({i \in 1..Max({Len(a), Len(b)}) : DigitAt(a, i) # DigitAt(b, i)},
              LAMBDA diff :
                 IF diff = {} THEN 0
                 ELSE IF DigitAt(a, Min(diff)) < DigitAt(b, Min(diff)) THEN -1 ELSE 1)

\* 2^1024 - 2^970, the least value that rounds to infinity, and 2^-1075, the
\* greatest that rounds to zero: their leading digits.
InfDigits ==
    <<"1", "7", "9", "7", "6", "9", "3", "1", "3", "4", "8", "6", "2", "3", "1",
      "5", "8", "0", "7", "9", "4">>

ZeroDigits ==
    <<"2", "4", "7", "0", "3", "2", "8", "2", "2", "9", "2", "0", "6", "2", "3",
      "2", "7", "2", "0", "8">>

NotFloat == [ok |-> FALSE, kind |-> "none", integral |-> FALSE]

Infinite == [ok |-> TRUE, kind |-> "inf", integral |-> FALSE]

NotANumber == [ok |-> TRUE, kind |-> "nan", integral |-> FALSE]

\* The parts of an unsigned decimal literal r: the digits before and after
\* the point, whether there is an exponent, its sign and its digits.
SplitFloat(r) ==
    LET ePos == FirstIn(r, {"e", "E"})
        mant == IF ePos = 0 THEN r ELSE Take(r, ePos - 1)
        expo == IF ePos = 0 THEN <<>> ELSE Drop(r, ePos)
        expSigned == expo # <<>> /\ expo[1] \in {"+", "-"}
        dot == FirstIn(mant, {"."})
    IN  [ip |-> IF dot = 0 THEN mant ELSE Take(mant, dot - 1),
         fp |-> IF dot = 0 THEN <<>> ELSE Drop(mant, dot),
         hasExp |-> ePos # 0,
         expNeg |-> expSigned /\ expo[1] = "-",
         expDigits |-> IF expSigned THEN Drop(expo, 1) ELSE expo]

\* The decimal literal p denotes sig * 10^scale, sig without leading zeros.
\* An exponent of more than 6 digits counts as 1000000, beyond every double.
FloatNumbers(p) ==
    LET eDigits == StripZeros(OnlyDigits(p.expDigits))
        eAbs == IF Len(eDigits) > 6 THEN 1000000 ELSE NatOf(eDigits)
    IN  [sig |-> StripZeros(OnlyDigits(p.ip) \o OnlyDigits(p.fp)),
         scale |-> (IF p.expNeg THEN 0 - eAbs ELSE eAbs) - Len(OnlyDigits(p.fp))]

\* The double nearest to sig * 10^scale.  It is infinite from 2^1024 - 2^970
\* (1.797...e308) and zero up to 2^-1075 (2.47...e-324); from 1e16 every
\* double is a whole number.  For texts of at most 15 significant digits the
\* double is whole exactly when the decimal is.
FloatOfNumbers(n) ==
    LET e10 == Len(n.sig) + n.scale - 1
        isZero ==
            \/ n.sig = <<>>
            \/ e10 < -324
            \/ e10 = -324 /\ CmpDigits(n.sig, ZeroDigits) <= 0
        isInf ==
            /\ n.sig # <<>>
            /\ \/ e10 > 308
               \/ e10 = 308 /\ CmpDigits(n.sig, InfDigits) >= 0
    IN  IF isInf THEN Infinite
        ELSE [ok |-> TRUE, kind |-> "finite",
              integral |-> \/ isZero
                           \/ n.scale >= 0
                           \/ TrailingZeros(n.sig) >= 0 - n.scale
                           \/ e10 >= 16]

FloatOfParts(p) ==
    IF /\ p.ip = <<>> \/ DigitGroup(p.ip)
       /\ p.fp = <<>> \/ DigitGroup(p.fp)
       /\ p.ip # <<>> \/ p.fp # <<>>
       /\ p.hasExp => DigitGroup(p.expDigits)
    THEN WithValue(FloatNumbers(p), FloatOfNumbers)
    ELSE NotFloat

\* float() of a text without surrounding whitespace and without sign
FloatOfUnsigned(r) ==
    IF LowerText(r) \in {<<"i", "n", "f">>, <<"i", "n", "f", "i", "n", "i", "t", "y">>}
    THEN Infinite
    ELSE IF LowerText(r) = <<"n", "a", "n">> THEN NotANumber
    ELSE WithValue(SplitFloat(r), FloatOfParts)

Unsigned(t) == IF t # <<>> /\ t[1] \in {"+", "-"} THEN Drop(t, 1) ELSE t

\* float(s): ok is whether the text parses; kind is "finite", "inf" or "nan";
\* integral is whether the finite result has no fractional part.
ParseFloat(s) == WithValue(WithValue(strip(s), Unsigned), FloatOfUnsigned)

\* ------------------------------------------------------------------------
\* The ISO 8601 pattern of src/script.py:29-32 and :78-80
\*   ^\d{4}-\d{2}-\d{2}([ T]\d{2}:\d{2}(:\d{2})?(\.\d+)?(Z|[+-]\d{2}:?\d{2})?)?$
\* ------------------------------------------------------------------------

\* \d{4}-\d{2}-\d{2} at the start of s
IsoDatePrefix(s) ==
    /\ Len(s) >= 10
    /\ AllDigits(SubSeq(s, 1, 4))
    /\ s[5] = "-"
    /\ AllDigits(SubSeq(s, 6, 7))
    /\ s[8] = "-"
    /\ AllDigits(SubSeq(s, 9, 10))

\* (Z|[+-]\d{2}:?\d{2})?$
IsoZone(z) ==
    \/ z = <<>>
    \/ z = <<"Z">>
    \/ /\ Len(z) = 5
       /\ z[1] \in {"+", "-"}
       /\ AllDigits(SubSeq(z, 2, 5))
    \/ /\ Len(z) = 6
       /\ z[1] \in {"+", "-"}
       /\ AllDigits(SubSeq(z, 2, 3))
       /\ z[4] = ":"
       /\ AllDigits(SubSeq(z, 5, 6))

\* (\.\d+)?(Z|...)?$ : the digits after the point are taken greedily; what
\* follows them starts with no digit, so no shorter run can match instead.
IsoFraction(f) ==
    IF f # <<>> /\ f[1] = "."
    THEN LET rest == Drop(f, 1)
             stop == FirstIn(rest, {"Z", "+", "-"})
             frac == IF stop = 0 THEN rest ELSE Take(rest, stop - 1)
         IN  /\ frac # <<>>
             /\ AllDigits(frac)
             /\ IsoZone(Drop(rest, Len(frac)))
    ELSE IsoZone(f)

\* [ T]\d{2}:\d{2}(:\d{2})?(\.\d+)?(Z|...)?$
IsoTime(r) ==
    /\ Len(r) >= 6
    /\ r[1] \in {" ", "T"}
    /\ AllDigits(SubSeq(r, 2, 3))
    /\ r[4] = ":"
    /\ AllDigits(SubSeq(r, 5, 6))
    /\ LET after == Drop(r, 6)
       IN  IF Len(after) >= 3 /\ after[1] = ":" /\ AllDigits(SubSeq(after, 2, 3))
           THEN IsoFraction(Drop(after, 3))
           ELSE IsoFraction(after)

\* iso_pattern.match(value)
iso_pattern(s) ==
    /\ IsoDatePrefix(s)
    /\ Len(s) = 10 \/ IsoTime(Drop(s, 10))

\* ------------------------------------------------------------------------
\* datetime.strptime and datetime.isoformat (src/script.py:43, 60, 104, 105)
\* ------------------------------------------------------------------------

\* A format is a sequence of tokens: a directive ("%Y", "%m", "%d", "%H",
\* "%M", "%S"), " " (which strptime reads as \s+) or a literal character.
Directives == {"%Y", "%m", "%d", "%H", "%M", "%S"}

NonZero == Digits \ {"0"}

\* Whether p is a text the directive's pattern matches as a whole:
\*   %Y \d\d\d\d                        %m 1[0-2]|0[1-9]|[1-9]
\*   %d 3[0-1]|[1-2]\d|0[1-9]|[1-9]| [1-9]
\*   %H 2[0-3]|[0-1]\d|\d    %M [0-5]\d|\d    %S 6[0-1]|[0-5]\d|\d
DirectiveMatches(tok, p) ==
    CASE tok = "%Y" -> Len(p) = 4 /\ AllDigits(p)
      [] tok = "%m" ->
            \/ Len(p) = 2 /\ p[1] = "1" /\ p[2] \in {"0", "1", "2"}
            \/ Len(p) = 2 /\ p[1] = "0" /\ p[2] \in NonZero
            \/ Len(p) = 1 /\ p[1] \in NonZero
      [] tok = "%d" ->
            \/ Len(p) = 2 /\ p[1] = "3" /\ p[2] \in {"0", "1"}
            \/ Len(p) = 2 /\ p[1] \in {"1", "2"} /\ p[2] \in Digits
            \/ Len(p) = 2 /\ p[1] = "0" /\ p[2] \in NonZero
            \/ Len(p) = 1 /\ p[1] \in NonZero
            \/ Len(p) = 2 /\ p[1] = " " /\ p[2] \in NonZero
      [] tok = "%H" ->
            \/ Len(p) = 2 /\ p[1] = "2" /\ p[2] \in {"0", "1", "2", "3"}
            \/ Len(p) = 2 /\ p[1] \in {"0", "1"} /\ p[2] \in Digits
            \/ Len(p) = 1 /\ p[1] \in Digits
      [] tok = "%M" ->
            \/ Len(p) = 2 /\ p[1] \in {"0", "1", "2", "3", "4", "5"} /\ p[2] \in Digits
            \/ Len(p) = 1 /\ p[1] \in Digits
      [] tok = "%S" ->
            \/ Len(p) = 2 /\ p[1] = "6" /\ p[2] \in {"0", "1"}
            \/ Len(p) = 2 /\ p[1] \in {"0", "1", "2", "3", "4", "5"} /\ p[2] \in Digits
            \/ Len(p) = 1 /\ p[1] \in Digits

\* The number of whitespace characters s starts with.
LeadingSpace(s) ==
    WithValue({i \in 1..Len(s) : s[i] \notin Whitespace},
              LAMBDA stop : IF stop = {} THEN Len(s) ELSE Min(stop) - 1)

\* The lengths of the prefixes of s the token can match, in the order the
\* regular expression tries them (longer alternatives come first, \s+ is
\* greedy); the format is compiled with re.IGNORECASE.
TokenLengths(tok, s) ==
    IF tok \in Directives
    THEN SelectSeq(IF tok = "%Y" THEN <<4>> ELSE <<2, 1>>,
                   LAMBDA k : k <= Len(s) /\ DirectiveMatches(tok, Take(s, k)))
    ELSE IF tok = " "
    THEN WithValue(LeadingSpace(s), LAMBDA n : [i \in 1..n |-> n + 1 - i])
    ELSE IF s # <<>> /\ Lower(s[1]) = Lower(tok) THEN <<1>> ELSE <<>>

StrpFail == [ok |-> FALSE, Y |-> 0, m |-> 0, d |-> 0, H |-> 0, M |-> 0, S |-> 0]

\* Fields a format does not set keep strptime's defaults.
StrpStart == [ok |-> TRUE, Y |-> 1900, m |-> 1, d |-> 1, H |-> 0, M |-> 0, S |-> 0]

Bind(acc, tok, p) ==
    CASE tok = "%Y" -> [acc EXCEPT !.Y = NatOf(OnlyDigits(p))]
      [] tok = "%m" -> [acc EXCEPT !.m = NatOf(OnlyDigits(p))]
      [] tok = "%d" -> [acc EXCEPT !.d = NatOf(OnlyDigits(p))]
      [] tok = "%H" -> [acc EXCEPT !.H = NatOf(OnlyDigits(p))]
      [] tok = "%M" -> [acc EXCEPT !.M = NatOf(OnlyDigits(p))]
      [] tok = "%S" -> [acc EXCEPT !.S = NatOf(OnlyDigits(p))]
      [] OTHER -> acc

\* One token of the match: st is [ok, i, p, acc], i the token to match next,
\* p the characters of s matched so far, acc the fields read.  The first
\* length a token can take is the only one that can lead to a match: in
\* these formats a directive is followed by a literal, by \s+ or by the end,
\* none of which accepts the digit a two-character alternative would give
\* back, and \s+ is followed by %H, which accepts no whitespace.
StrpStep(fmt, s, st) ==
    WithValue(TokenLengths(fmt[st.i], Drop(s, st.p)),
              LAMBDA lens :
                 IF lens = <<>> THEN [st EXCEPT !.ok = FALSE]
                 ELSE [ok |-> TRUE, i |-> st.i + 1, p |-> st.p + lens[1],
                       acc |-> Bind(st.acc, fmt[st.i],
                                    SubSeq(s, st.p + 1, st.p + lens[1]))])

\* The match of the format's regular expression against all of s.
RECURSIVE StrpMatch(_, _, _)
StrpMatch(fmt, s, st) ==
    IF ~st.ok THEN StrpFail
    ELSE IF st.i > Len(fmt) THEN (IF st.p = Len(s) THEN st.acc ELSE StrpFail)
    ELSE WithValue(StrpStep(fmt, s, st), LAMBDA nx : StrpMatch(fmt, s, nx))

IsLeap(y) == y % 4 = 0 /\ (y % 100 # 0 \/ y % 400 = 0)

DaysInMonth(y, m) ==
    IF m = 2 THEN (IF IsLeap(y) THEN 29 ELSE 28)
    ELSE IF m \in {4, 6, 9, 11} THEN 30 ELSE 31

\* datetime.strptime(s, fmt): ok is FALSE where it raises ValueError (no
\* match, unconverted data, year 0, a day the month does not have, or a
\* second of 60 or 61, which the pattern accepts and datetime refuses).
strptime(s, fmt) ==
    WithValue(StrpMatch(fmt, s, [ok |-> TRUE, i |-> 1, p |-> 0, acc |-> StrpStart]),
              LAMBDA r :
                 IF r.ok /\ r.Y >= 1 /\ r.d <= DaysInMonth(r.Y, r.m) /\ r.S <= 59
                 THEN r ELSE StrpFail)

\* dt.isoformat(timespec="seconds")
isoformat(dt) ==
    Pad(dt.Y, 4) \o <<"-">> \o Pad(dt.m, 2) \o <<"-">> \o Pad(dt.d, 2) \o <<"T">>
      \o Pad(dt.H, 2) \o <<":">> \o Pad(dt.M, 2) \o <<":">> \o Pad(dt.S, 2)

Fmt_Ymd == <<"%Y", "-", "%m", "-", "%d">>

Fmt_dmY == <<"%d", "/", "%m", "/", "%Y">>

Fmt_mdY == <<"%m", "/", "%d", "/", "%Y">>

Fmt_HMS == <<"%H", ":", "%M", ":", "%S">>

Fmt_HM == <<"%H", ":", "%M">>

\* src/script.py:40 and :90
date_formats == <<Fmt_Ymd, Fmt_dmY, Fmt_mdY>>

\* src/script.py:49-57 and :91-99
datetime_formats ==
    <<Fmt_Ymd \o <<" ">> \o Fmt_HMS,
      Fmt_Ymd \o <<"T">> \o Fmt_HMS,
      Fmt_Ymd \o <<" ">> \o Fmt_HM,
      Fmt_dmY \o <<" ">> \o Fmt_HMS,
      Fmt_mdY \o <<" ">> \o Fmt_HMS,
      Fmt_dmY \o <<" ">> \o Fmt_HM,
      Fmt_mdY \o <<" ">> \o Fmt_HM>>

\* Index of the first format of fmts that parses s, 0 if none does: the
\* loops of lines 41-46, 58-63 and 102-107 stop at it.
FirstFormat(s, fmts) ==
    WithValue({i \in 1..Len(fmts) : strptime(s, fmts[i]).ok},
              LAMBDA good : IF good = {} THEN 0 ELSE Min(good))

\* ------------------------------------------------------------------------
\* The helpers of src/script.py
\* ------------------------------------------------------------------------

\* Lines 28-65, on the stripped text v.
DetectStripped(v) ==
    IF v = <<>> THEN "None"
    ELSE IF iso_pattern(v)
    THEN (IF Contains(v, "T") \/ Contains(v, ":") THEN "TIMESTAMP" ELSE "DATE")
    ELSE IF FirstFormat(v, date_formats) # 0 THEN "DATE"
    ELSE IF FirstFormat(v, datetime_formats) # 0 THEN "TIMESTAMP"
    ELSE "None"

\* detect_date_or_timestamp(value): "DATE", "TIMESTAMP" or "None".
detect_date_or_timestamp(value) ==
    IF ~isinstance_str(value) THEN "None"
    ELSE WithValue(strip(value.s), DetectStripped)

\* formats.get(detected_type, [])
formats(detected_type) ==
    IF detected_type = "DATE" THEN date_formats
    ELSE IF detected_type = "TIMESTAMP" THEN datetime_formats
    ELSE <<>>

\* value.replace(" ", "T")
ReplaceSpaceT(s) == [i \in 1..Len(s) |-> IF s[i] = " " THEN "T" ELSE s[i]]

\* Lines 88-109, on the stripped text v that is not of the ISO pattern.
NormalizeByFormat(v, detected_type) ==
    WithValue(FirstFormat(v, formats(detected_type)),
              LAMBDA k :
                 IF k # 0 THEN Str(isoformat(strptime(v, formats(detected_type)[k])))
                 ELSE Str(v))

\* normalize_datetime_value(value, detected_type)
normalize_datetime_value(value, detected_type) ==
    IF detected_type = "None" \/ ~isinstance_str(value) THEN value
    ELSE WithValue(strip(value.s),
                   LAMBDA v :
                      IF v = <<>> THEN Str(v)
                      ELSE IF iso_pattern(v)
                      THEN (IF detected_type = "DATE" THEN Str(Take(v, 10))
                            ELSE Str(ReplaceSpaceT(v)))
                      ELSE NormalizeByFormat(v, detected_type))

\* value is None or str(value).strip() == ""
IsBlank(value) == value = None \/ strip(str(value)) = <<>>

Returned(level) == [raised |-> FALSE, level |-> level]

\* int() of an infinite float raises OverflowError, which no except clause
\* of the classifier names.
OverflowRaised == [raised |-> TRUE, level |-> 0]

\* Lines 130-137.
TemporalLevel(detected) ==
    IF detected = "DATE" THEN Returned(2)
    ELSE IF detected = "TIMESTAMP" THEN Returned(3)
    ELSE Returned(4)

\* get_value_type_level(value): the level it returns, or raised where the
\* call ends in an exception.  int(float(...)) raises ValueError for nan,
\* which line 121 catches, and OverflowError for an infinity.
get_value_type_level(value) ==
    IF IsBlank(value) THEN Returned(-1)
    ELSE WithValue(ParseFloat(str(value)),
                   LAMBDA f :
                      IF f.ok /\ f.kind = "inf" THEN OverflowRaised
                      ELSE IF f.ok /\ f.kind = "finite" /\ f.integral THEN Returned(0)
                      ELSE IF f.ok THEN Returned(1)
                      ELSE WithValue(detect_date_or_timestamp(Str(str(value))),
                                     TemporalLevel))

\* src/script.py:145
type_hierarchy == <<"BIGINT", "FLOAT8", "DATE", "TIMESTAMP", "TEXT">>

\* ------------------------------------------------------------------------
\* Rows.  A row is a JSON object: a sequence of cells [k |-> key, v |-> value]
\* in key order, no key twice.  A batch is a sequence of rows.
\* ------------------------------------------------------------------------

\* list(row.keys())
KeysOf(row) == [i \in 1..Len(row) |-> row[i].k]

\* Position of key k in the sequence of keys ks, 0 if it is not there.
IndexOf(ks, k) ==
    WithValue({i \in 1..Len(ks) : ks[i] = k},
              LAMBDA at : IF at = {} THEN 0 ELSE Min(at))

\* The cells of all rows, in the order the nested loops of
\* src/script.py:148-149 visit them.
RECURSIVE Flatten(_)
Flatten(rows) == IF rows = <<>> THEN <<>> ELSE Head(rows) \o Flatten(Tail(rows))

\* The loop body of src/script.py:150-154 for one cell: st is
\* [raised, levels], levels being column_levels in header order.
ScanCell(cell, headers, st) ==
    WithValue(IndexOf(headers, cell.k),
              LAMBDA i :
                 IF i = 0 THEN st
                 ELSE WithValue(get_value_type_level(cell.v),
                                LAMBDA value_level :
                                   IF value_level.raised
                                   THEN [raised |-> TRUE, levels |-> st.levels]
                                   ELSE IF value_level.level > st.levels[i]
                                   THEN [st EXCEPT !.levels[i] = value_level.level]
                                   ELSE st))

\* The loops of src/script.py:148-154 from the n-th cell on.
RECURSIVE ScanCells(_, _, _, _)
ScanCells(cells, headers, n, st) ==
    IF n > Len(cells) \/ st.raised THEN st
    ELSE WithValue(ScanCell(cells[n], headers, st),
                   LAMBDA nx : ScanCells(cells, headers, n + 1, nx))

\* column_levels when the scan of rows ends (src/script.py:144-154).
column_levels(rows) ==
    WithValue(Flatten(rows),
              LAMBDA cells :
                 ScanCells(cells, KeysOf(rows[1]), 1,
                           [raised |-> FALSE,
                            levels |-> [i \in 1..Len(rows[1]) |-> 0]]))

\* The mapping line 156 builds, as a sequence of [k |-> header, t |-> type].
TypesOf(headers, st) ==
    IF st.raised THEN [raised |-> TRUE, cols |-> <<>>]
    ELSE [raised |-> FALSE,
          cols |-> [i \in 1..Len(headers) |->
                      [k |-> headers[i], t |-> type_hierarchy[st.levels[i] + 1]]]]

\* get_column_types(rows): raised where get_value_type_level raised; else
\* cols, the mapping.
get_column_types(rows) ==
    IF rows = <<>> THEN [raised |-> FALSE, cols |-> <<>>]
    ELSE WithValue(column_levels(rows), LAMBDA st : TypesOf(KeysOf(rows[1]), st))

\* d[k] = v on a dict kept as a sequence of cells
DictSet(d, k, v) ==
    WithValue(IndexOf(KeysOf(d), k),
              LAMBDA i : IF i = 0 THEN Append(d, [k |-> k, v |-> v])
                         ELSE [d EXCEPT ![i].v = v])

\* clean_value with a blank test that sees None only, so that blank text is
\* stored as text.
clean_value_none_only(val) ==
    IF val = None THEN None
    ELSE WithValue(detect_date_or_timestamp(Str(str(val))),
                   LAMBDA detected :
                      IF detected # "None"
                      THEN normalize_datetime_value(Str(str(val)), detected)
                      ELSE val)

\* The value src/script.py:215-222 stores for val.
clean_value(val) ==
    IF IsBlank(val) THEN None
    ELSE WithValue(detect_date_or_timestamp(Str(str(val))),
                   LAMBDA detected :
                      IF detected # "None"
                      THEN normalize_datetime_value(Str(str(val)), detected)
                      ELSE val)

\* The loop body of src/script.py:211-222 for one cell.
CleanCell(cell, clean_row) ==
    IF cell.k = <<>> THEN clean_row
    ELSE WithValue(clean_value(cell.v),
                   LAMBDA val : DictSet(clean_row, sanitize(cell.k), val))

\* clean_row after the loop of src/script.py:211-222 from the n-th cell on.
RECURSIVE CleanCells(_, _, _)
CleanCells(row, n, clean_row) ==
    IF n > Len(row) THEN clean_row
    ELSE WithValue(CleanCell(row[n], clean_row),
                   LAMBDA nx : CleanCells(row, n + 1, nx))

\* clean_rows of src/script.py:208-223
clean_rows_of(rows) == [i \in 1..Len(rows) |-> CleanCells(rows[i], 1, <<>>)]

\* The columns of the CREATE TABLE statement of src/script.py:193-197, after
\* the id column.
cols_sql(column_definitions) ==
    [i \in 1..Len(column_definitions) |->
        [k |-> sanitize(column_definitions[i].k), t |-> column_definitions[i].t]]

\* ------------------------------------------------------------------------
\* Inputs
\* ------------------------------------------------------------------------

\* Most tables of one fetch, and most rows of one table.
MaxTables == 2

MaxRows == 2

\* JSON strings the classifier is tried on: blanks, integers, decimals,
\* exponents, non-finite and out-of-range numbers, ISO dates and timestamps,
\* slash dates, and text that is none of these.
SampleStrings ==
    {Str(<<>>),
     Str(<<" ">>),
     Str(<<"\t">>),
     Str(<<"7">>),
     Str(<<"-", "3">>),
     Str(<<" ", "5", " ">>),
     Str(<<"5", ".", "0">>),
     Str(<<"5", ".">>),
     Str(<<".", "5">>),
     Str(<<"5", ".", "5">>),
     Str(<<"-", "0", ".", "2", "5">>),
     Str(<<"1", "e", "3">>),
     Str(<<"1", "E", "-", "2">>),
     Str(<<"+", ".", "5", "e", "+", "3">>),
     Str(<<"1", "5", "e", "-", "1">>),
     Str(<<"1", "_", "0", "0", "0">>),
     Str(<<"1", "_", "_", "0">>),
     Str(<<"1", "_">>),
     Str(<<"_", "1">>),
     Str(<<"2", "0", "2", "4">>),
     Str(<<"0">>),
     Str(<<"0", "0">>),
     Str(<<"1", "e", "5">>),
     Str(<<"1", "e", "-", "9", "9", "9">>),
     Str(<<"1", "e", "9", "9", "9">>),
     Str(<<"-", "1", "e", "4", "0", "0">>),
     Str(<<"2", "e", "3", "0", "8">>),
     Str(<<"1", ".", "7", "e", "3", "0", "8">>),
     Str(<<"i", "n", "f">>),
     Str(<<"-", "i", "n", "f">>),
     Str(<<"I", "n", "f", "i", "n", "i", "t", "y">>),
     Str(<<"+", "I", "N", "F">>),
     Str(<<"n", "a", "n">>),
     Str(<<"N", "a", "N">>),
     Str(<<"i", "n", "f", "i", "n", "i", "t">>),
     Str(<<"e", "5">>),
     Str(<<".">>),
     Str(<<"1", ".", "2", ".", "3">>),
     Str(<<"1", "e">>),
     Str(<<"1", "e", "+">>),
     Str(<<"0", "x", "1", "0">>),
     Str(<<"1", ",", "5">>),
     Str(<<"3", "e", "-", "3", "2", "4">>),
     Str(<<"2", "e", "-", "3", "2", "4">>),
     Str(<<"1", "2", ".", "5", "0">>),
     Str(<<"1", "2", "5", "0", "e", "-", "2">>),
     Str(<<"1", "2", "5", "e", "-", "3">>),
     Str(<<"2", "0", "2", "4", "-", "0", "1", "-", "1", "5">>),
     Str(<<" ", "2", "0", "2", "4", "-", "0", "1", "-", "1", "5", " ">>),
     Str(<<"2", "0", "2", "4", "-", "1", "3", "-", "4", "5">>),
     Str(<<"2", "0", "2", "4", "-", "1", "-", "5">>),
     Str(<<"2", "0", "2", "4", "-", "0", "1", "-", " ", "5">>),
     Str(<<"0", "0", "0", "0", "-", "0", "1", "-", "0", "1">>),
     Str(<<"2", "0", "2", "4", "-", "0", "2", "-", "3", "0">>),
     Str(<<"2", "0", "2", "3", "-", "2", "-", "2", "9">>),
     Str(<<"2", "0", "2", "4", "-", "2", "-", "2", "9">>),
     Str(<<"2", "0", "2", "4", "-", "0", "1", "-", "1", "5", "T", "1", "0", ":", "3", "0", ":", "0", "0", "Z">>),
     Str(<<"2", "0", "2", "4", "-", "0", "1", "-", "1", "5", " ", "1", "0", ":", "3", "0">>),
     Str(<<"2", "0", "2", "4", "-", "0", "1", "-", "1", "5", "T", "1", "0", ":", "3", "0">>),
     Str(<<"2", "0", "2", "4", "-", "0", "1", "-", "1", "5", " ", "1", "0", ":", "3", "0", ":", "0", "0">>),
     Str(<<"2", "0", "2", "4", "-", "0", "1", "-", "1", "5", "T", "1", "0", ":", "3", "0", ":", "0", "0", ".", "1", "2", "3", "+", "0", "5", ":", "3", "0">>),
     Str(<<"2", "0", "2", "4", "-", "0", "1", "-", "1", "5", " ", "1", "0", ":", "3", "0", ":", "0", "0", "-", "0", "5", "3", "0">>),
     Str(<<"2", "0", "2", "4", "-", "0", "1", "-", "1", "5", "T", "1", "0", ":", "3", "0", ":", "0", "0", ".", "Z">>),
     Str(<<"2", "0", "2", "4", "-", "0", "1", "-", "1", "5", "T", "1", "0", ":", "3", "0", ":">>),
     Str(<<"2", "0", "2", "4", "-", "0", "1", "-", "1", "5", "T", "2", "5", ":", "6", "1", ":", "6", "1">>),
     Str(<<"2", "0", "2", "4", "-", "0", "1", "-", "1", "5", "t", "1", "0", ":", "3", "0", ":", "0", "0">>),
     Str(<<"2", "0", "2", "4", "-", "0", "1", "-", "1", "5", " ", " ", "1", "0", ":", "3", "0">>),
     Str(<<"2", "0", "2", "4", "-", "1", "-", "5", " ", "9", ":", "5">>),
     Str(<<"2", "0", "2", "4", "-", "1", "-", "5", "T", "9", ":", "5", ":", "7">>),
     Str(<<"2", "0", "2", "4", "-", "0", "1", "-", "1", "5", " ", "1", "0", ":", "3", "0", ":", "6", "0">>),
     Str(<<"2", "0", "2", "4", "-", "0", "1", "-", "1", "5", "T", "1", ":", "3", "0">>),
     Str(<<"2", "0", "2", "4", "-", "0", "1", "-", "1", "5", "Z">>),
     Str(<<"2", "0", "2", "4", "-", "0", "1", "-", "1", "5", " ">>),
     Str(<<"1", "5", "/", "0", "1", "/", "2", "0", "2", "4">>),
     Str(<<"0", "1", "/", "1", "5", "/", "2", "0", "2", "4">>),
     Str(<<"1", "/", "2", "/", "2", "0", "2", "4">>),
     Str(<<"3", "1", "/", "1", "2", "/", "1", "9", "9", "9">>),
     Str(<<"1", "2", "/", "3", "1", "/", "1", "9", "9", "9">>),
     Str(<<"3", "1", "/", "0", "2", "/", "2", "0", "2", "4">>),
     Str(<<"1", "3", "/", "1", "3", "/", "2", "0", "2", "4">>),
     Str(<<"0", "0", "/", "0", "1", "/", "2", "0", "2", "4">>),
     Str(<<"1", "5", "/", "0", "1", "/", "2", "4">>),
     Str(<<"1", "5", "-", "0", "1", "-", "2", "0", "2", "4">>),
     Str(<<"1", "5", "/", "0", "1", "/", "2", "0", "2", "4", " ", "1", "0", ":", "3", "0", ":", "0", "0">>),
     Str(<<"0", "1", "/", "1", "5", "/", "2", "0", "2", "4", " ", "1", "0", ":", "3", "0">>),
     Str(<<"1", "5", "/", "0", "1", "/", "2", "0", "2", "4", " ", "1", "0", ":", "3", "0">>),
     Str(<<"0", "1", "/", "1", "5", "/", "2", "0", "2", "4", " ", "9", ":", "0", "5", ":", "0", "7">>),
     Str(<<"1", "5", "/", "0", "1", "/", "2", "0", "2", "4", "T", "1", "0", ":", "3", "0">>),
     Str(<<"2", "9", "/", "0", "2", "/", "2", "0", "2", "3">>),
     Str(<<"2", "9", "/", "0", "2", "/", "2", "0", "2", "4">>),
     Str(<<"1", "5", "/", "0", "1", "/", "0", "0", "0", "0">>),
     Str(<<" ", "5", "/", "0", "1", "/", "2", "0", "2", "4">>),
     Str(<<"0", "1", "/", " ", "5", "/", "2", "0", "2", "4">>),
     Str(<<"h", "e", "l", "l", "o">>),
     Str(<<"T", "r", "u", "e">>),
     Str(<<"a", " ", "b">>),
     Str(<<"T">>),
     Str(<<":">>),
     Str(<<"2", "0", "2", "4", "-", "0", "1", "-", "1", "5", "x">>),
     Str(<<"1", "0", ":", "3", "0">>),
     Str(<<"N", "/", "A">>),
     Str(<<"-">>),
     Str(<<"+">>),
     Str(<<"1", "e", "5", "x">>),
     Str(<<"1", " ", "0", "0", "0">>),
     Str(<<"-", "-", "5">>),
     Str(<<"1", ".", "5", "e", "3", ".", "2">>)}

\* JSON numbers, each as the text str() gives for it.
SampleNumbers ==
    {Num(<<"7">>),
     Num(<<"-", "3">>),
     Num(<<"5", ".", "5">>),
     Num(<<"1", "e", "+", "1", "6">>),
     Num(<<"i", "n", "f">>),
     Num(<<"n", "a", "n">>),
     Num(<<"0">>),
     Num(<<"0", ".", "0">>),
     Num(<<"1", "e", "-", "0", "5">>),
     Num(<<"-", "i", "n", "f">>),
     Num(<<"2", "0", "2", "4">>)}

SampleValues == {None} \cup SampleStrings \cup SampleNumbers

\* Column names: plain, with characters the sanitizer replaces, and empty.
SampleKeys ==
    {<<"a">>, <<"O", "r", "d", "e", "r", " ", "#", "1">>, <<"b", "_", "c">>, <<>>}

\* The rows of a fetched table: column "a" holds any of these values, column
\* "b c" a whole number; a row has either column, both in either order, or
\* none.
SyncValues ==
    {None,
     Str(<<"7">>),
     Str(<<"1", "5", "/", "0", "1", "/", "2", "0", "2", "4">>),
     Str(<<"i", "n", "f">>),
     Str(<<"h", "e", "l", "l", "o">>)}

CellA(v) == [k |-> <<"a">>, v |-> v]

CellB == [k |-> <<"b", " ", "c">>, v |-> Str(<<"4", "2">>)]

SyncRows ==
    {<<>>, <<CellB>>}
      \cup {<<CellA(v)>> : v \in SyncValues}
      \cup {<<CellA(v), CellB>> : v \in SyncValues}
      \cup {<<CellB, CellA(v)>> : v \in SyncValues}

\* The batches response.json() can hold for one table.
Batches == UNION {[1..n -> SyncRows] : n \in 0..MaxRows}

\* The name of the i-th table of the fetch.
TableName(i) == <<"S", "h", "e", "e", "t", " ", DigitChar(i)>>

\* ------------------------------------------------------------------------
\* State
\* ------------------------------------------------------------------------

VARIABLES
    pc,                  \* position in sync_to_db
    total,               \* len(sheets_data)
    idx,                 \* tables the loop of line 181 has yielded so far
    table_name,          \* sanitized_table_name
    rows,                \* rows of the table being processed
    column_definitions,  \* what get_column_types(rows) gave
    created,             \* columns of the CREATE TABLE statement last issued
    clean_rows,          \* rows handed to upsert for this table
    steps,               \* statements that succeeded for this table
    outcome,             \* how the processing of this table ended
    rolled_back,         \* conn.rollback() was called for this table
    tx,                  \* statements of the open transaction
    cursor_open,
    conn_open,
    v_key,               \* one cell, for the helpers taken alone
    v_val,
    v_level,             \* get_value_type_level(v_val)
    v_detected,          \* detect_date_or_timestamp(str(v_val))
    v_normalized,        \* normalize_datetime_value(str(v_val), v_detected)
    v_clean              \* the sanitized row {v_key: v_val}

sync_vars ==
    <<pc, total, idx, table_name, rows, column_definitions, created, clean_rows,
      steps, outcome, rolled_back, tx, cursor_open, conn_open>>

value_vars == <<v_key, v_val, v_level, v_detected, v_normalized, v_clean>>

vars == <<sync_vars, value_vars>>

\* A result no call has produced yet.
Unset == [set |-> FALSE]

Result(x) == [set |-> TRUE, val |-> x]

NoColumns == [raised |-> FALSE, cols |-> <<>>]

SchemaSteps == {"drop", "create", "commit", "notify"}

SyncIdle ==
    /\ pc = "idle"
    /\ total = 0
    /\ idx = 0
    /\ table_name = <<>>
    /\ rows = <<>>
    /\ column_definitions = NoColumns
    /\ created = <<>>
    /\ clean_rows = <<>>
    /\ steps = {}
    /\ outcome = "none"
    /\ rolled_back = FALSE
    /\ tx = <<>>
    /\ cursor_open = FALSE
    /\ conn_open = FALSE

ValueIdle ==
    /\ v_key = <<>>
    /\ v_val = None
    /\ v_level = Unset
    /\ v_detected = Unset
    /\ v_normalized = Unset
    /\ v_clean = Unset

\* ------------------------------------------------------------------------
\* sync_to_db (src/script.py:161-234)
\* ------------------------------------------------------------------------

\* The process as sync_to_db is entered.
Init ==
    /\ SyncIdle
    /\ ValueIdle

\* Line 163-165: the configuration check.
CheckConfig ==
    /\ pc = "idle"
    /\ \E configured \in BOOLEAN :
          pc' = IF configured THEN "setup" ELSE "returned"
    /\ UNCHANGED <<total, idx, table_name, rows, column_definitions, created,
                   clean_rows, steps, outcome, rolled_back, tx, cursor_open,
                   conn_open, value_vars>>

\* Lines 167-179: fetch, create_client, connect, cursor.  Any of them may
\* raise, and the handler returns; a cursor() that raises leaves the
\* connection open.
Setup ==
    /\ pc = "setup"
    /\ \E result \in {"ok", "fetch", "client", "connect", "cursor"} :
          \E n \in 0..MaxTables :
             /\ pc' = IF result = "ok" THEN "loop" ELSE "returned"
             /\ total' = IF result = "ok" THEN n ELSE 0
             /\ conn_open' = (result \in {"ok", "cursor"})
             /\ cursor_open' = (result = "ok")
    /\ UNCHANGED <<idx, table_name, rows, column_definitions, created, clean_rows,
                   steps, outcome, rolled_back, tx, value_vars>>

\* Lines 181-187: the loop yields the next table, whose rows are whatever
\* response.json() held for it; an empty sheet is skipped.
NextTable ==
    /\ pc = "loop"
    /\ idx < total
    /\ \E b \in Batches :
          /\ rows' = b
          /\ pc' = IF b = <<>> THEN "continue" ELSE "resolve"
          /\ outcome' = IF b = <<>> THEN "skipped" ELSE "none"
    /\ idx' = idx + 1
    /\ table_name' = sanitize(TableName(idx + 1))
    /\ UNCHANGED <<total, column_definitions, created, clean_rows, steps,
                   rolled_back, tx, cursor_open, conn_open, value_vars>>

\* The continue statements of lines 187, 205 and 230 and the end of the loop
\* body: back to line 181, the names bound in the iteration are dead.
Continue ==
    /\ pc = "continue"
    /\ pc' = "loop"
    /\ table_name' = <<>>
    /\ rows' = <<>>
    /\ column_definitions' = NoColumns
    /\ created' = <<>>
    /\ clean_rows' = <<>>
    /\ steps' = {}
    /\ outcome' = "none"
    /\ rolled_back' = FALSE
    /\ UNCHANGED <<total, idx, tx, cursor_open, conn_open, value_vars>>

\* Line 189: outside every try block, so an exception of get_column_types
\* leaves sync_to_db.
ResolveTypes ==
    /\ pc = "resolve"
    /\ column_definitions' = get_column_types(rows)
    /\ pc' = IF column_definitions'.raised THEN "crashed" ELSE "drop"
    /\ UNCHANGED <<total, idx, table_name, rows, created, clean_rows, steps,
                   outcome, rolled_back, tx, cursor_open, conn_open, value_vars>>

\* The schema handler without its continue: control falls through to the
\* insert block.
AfterSchemaError_fall_through == "insert"

\* Line 205: where the schema handler goes after the rollback.
AfterSchemaError == "continue"

\* Lines 202-205: the handler of the schema try block.
SchemaError ==
    /\ outcome' = "schema_error"
    /\ rolled_back' = TRUE
    /\ tx' = <<>>
    /\ pc' = AfterSchemaError
    /\ UNCHANGED steps

\* A statement of the schema try block that succeeds.
SchemaStep(name, next) ==
    /\ steps' = steps \cup {name}
    /\ tx' = IF name = "commit" THEN <<>> ELSE Append(tx, name)
    /\ pc' = next
    /\ UNCHANGED <<outcome, rolled_back>>

\* Line 192: DROP TABLE IF EXISTS.
DropTable ==
    /\ pc = "drop"
    /\ \/ SchemaStep("drop", "create")
       \/ SchemaError
    /\ UNCHANGED <<total, idx, table_name, rows, column_definitions, created,
                   clean_rows, cursor_open, conn_open, value_vars>>

\* Lines 193-198: CREATE TABLE with the resolved columns.
CreateTable ==
    /\ pc = "create"
    /\ created' = cols_sql(column_definitions.cols)
    /\ \/ SchemaStep("create", "commit")
       \/ SchemaError
    /\ UNCHANGED <<total, idx, table_name, rows, column_definitions, clean_rows,
                   cursor_open, conn_open, value_vars>>

\* Line 199: conn.commit().
Commit ==
    /\ pc = "commit"
    /\ \/ SchemaStep("commit", "notify")
       \/ SchemaError
    /\ UNCHANGED <<total, idx, table_name, rows, column_definitions, created,
                   clean_rows, cursor_open, conn_open, value_vars>>

\* Line 200: NOTIFY pgrst, in a transaction of its own that stays open.
Notify ==
    /\ pc = "notify"
    /\ \/ SchemaStep("notify", "insert")
       \/ SchemaError
    /\ UNCHANGED <<total, idx, table_name, rows, column_definitions, created,
                   clean_rows, cursor_open, conn_open, value_vars>>

\* Lines 207-230: sanitize the rows and upsert them; the upsert may raise.
Insert ==
    /\ pc = "insert"
    /\ clean_rows' = clean_rows_of(rows)
    /\ \E ok \in BOOLEAN : outcome' = IF ok THEN "ok" ELSE "insert_error"
    /\ pc' = "continue"
    /\ UNCHANGED <<total, idx, table_name, rows, column_definitions, created,
                   steps, rolled_back, tx, cursor_open, conn_open, value_vars>>

\* Lines 232-234: after the last table.
Close ==
    /\ pc = "loop"
    /\ idx = total
    /\ cursor_open' = FALSE
    /\ conn_open' = FALSE
    /\ tx' = <<>>
    /\ pc' = "done"
    /\ UNCHANGED <<total, idx, table_name, rows, column_definitions, created,
                   clean_rows, steps, outcome, rolled_back, value_vars>>

Next ==
    \/ CheckConfig
    \/ Setup
    \/ NextTable
    \/ Continue
    \/ ResolveTypes
    \/ DropTable
    \/ CreateTable
    \/ Commit
    \/ Notify
    \/ Insert
    \/ Close

Spec == Init /\ [][Next]_vars

\* ------------------------------------------------------------------------
\* The helpers taken alone, each applied to one cell
\* ------------------------------------------------------------------------

InitValue ==
    /\ SyncIdle
    /\ v_key \in SampleKeys
    /\ v_val \in SampleValues
    /\ v_level = Unset
    /\ v_detected = Unset
    /\ v_normalized = Unset
    /\ v_clean = Unset

\* get_value_type_level(value)
Classify ==
    /\ ~v_level.set
    /\ v_level' = Result(get_value_type_level(v_val))
    /\ UNCHANGED <<sync_vars, v_key, v_val, v_detected, v_normalized, v_clean>>

\* detect_date_or_timestamp(str(value)), as lines 131 and 219 call it, on a
\* value that is not None.
Detect ==
    /\ ~v_detected.set
    /\ v_val # None
    /\ v_detected' = Result(detect_date_or_timestamp(Str(str(v_val))))
    /\ UNCHANGED <<sync_vars, v_key, v_val, v_level, v_normalized, v_clean>>

\* normalize_datetime_value(str(value), detected), with what the detection
\* reported.
Normalize ==
    /\ v_detected.set
    /\ ~v_normalized.set
    /\ v_normalized' = Result(normalize_datetime_value(Str(str(v_val)), v_detected.val))
    /\ UNCHANGED <<sync_vars, v_key, v_val, v_level, v_detected, v_clean>>

\* Lines 210-222 on the row {key: value}.
SanitizeRow ==
    /\ ~v_clean.set
    /\ v_clean' = Result(CleanCells(<<[k |-> v_key, v |-> v_val]>>, 1, <<>>))
    /\ UNCHANGED <<sync_vars, v_key, v_val, v_level, v_detected, v_normalized>>

NextValue ==
    \/ Classify
    \/ Detect
    \/ Normalize
    \/ SanitizeRow

SpecValue == InitValue /\ [][NextValue]_vars

\* ------------------------------------------------------------------------
\* Properties of get_value_type_level, detect_date_or_timestamp and
\* normalize_datetime_value (checked under SpecValue)
\* ------------------------------------------------------------------------

\* C3: classification never fails: for every scalar input, a number the
\* float parser reads as non-finite or out of range included,
\* get_value_type_level raises no error and returns one of the levels
\* -1, 0, 1, 2, 3, 4, and a value that is neither blank, numeric nor
\* temporal gets level 4 (TEXT).
C3_ClassificationNeverFails ==
    v_level.set =>
        /\ ~v_level.val.raised
        /\ v_level.val.level \in -1..4
        /\ ( /\ ~IsBlank(v_val)
             /\ ~ParseFloat(str(v_val)).ok
             /\ detect_date_or_timestamp(Str(str(v_val))) = "None" )
           => v_level.val.level = 4

\* The classifier as the specification words it: EMPTY, else INTEGER if the
\* text parses as a number equal to its own truncation, else FLOAT if it
\* parses as a number, else what the temporal detection reports, else TEXT.
\* An infinity or a nan equals no integer.
classify(raw) ==
    IF raw = None \/ strip(str(raw)) = <<>> THEN -1
    ELSE IF ParseFloat(str(raw)).ok
    THEN (IF ParseFloat(str(raw)).kind = "finite" /\ ParseFloat(str(raw)).integral
          THEN 0 ELSE 1)
    ELSE IF detect_date_or_timestamp(Str(str(raw))) = "DATE" THEN 2
    ELSE IF detect_date_or_timestamp(Str(str(raw))) = "TIMESTAMP" THEN 3
    ELSE 4

\* C5: get_value_type_level equals the reference classifier for every
\* input, numeric forms being tried before temporal ones, so that a bare
\* year such as 2024 is INTEGER and never DATE.
C5_EqualsReference ==
    v_level.set =>
        /\ ~v_level.val.raised
        /\ v_level.val.level = classify(v_val)
        /\ v_val = Str(<<"2", "0", "2", "4">>) => v_level.val.level = 0

\* YYYY-MM-DD and nothing else
IsCanonicalDate(s) ==
    /\ Len(s) = 10
    /\ IsoDatePrefix(s)

\* C6: for every text that detect_date_or_timestamp reports as DATE,
\* normalize_datetime_value(v, DATE) is exactly the 10-character YYYY-MM-DD
\* text, with no time of day, whether v is of the ISO pattern or of one of
\* the fixed date patterns.
C6_DateIsCanonical ==
    (v_detected.set /\ v_detected.val = "DATE" /\ v_normalized.set)
        => /\ isinstance_str(v_normalized.val)
           /\ IsCanonicalDate(v_normalized.val.s)

\* The value stored for the one cell of the sanitized row.
Stored == v_clean.val[1].v

\* C8: row sanitization changes a value in two cases only: an absent or
\* blank value is stored as null (not as an empty string, not as a zero),
\* and a value the detection reports a kind for is stored as what
\* normalize_datetime_value gives for it; every other value, every numeric
\* value included, is stored as it came.
C8_SanitizeChangesOnlyBlankAndTemporal ==
    (v_clean.set /\ v_key # <<>>) =>
        /\ Len(v_clean.val) = 1
        /\ IsBlank(v_val) => Stored = None
        /\ (~IsBlank(v_val) /\ v_detected.set /\ v_detected.val = "None")
              => Stored = v_val
        /\ (~IsBlank(v_val) /\ v_detected.set /\ v_detected.val # "None"
              /\ v_normalized.set)
              => Stored = v_normalized.val
        /\ (~IsBlank(v_val) /\ v_level.set /\ ~v_level.val.raised
              /\ v_level.val.level \in {0, 1})
              => Stored = v_val
        /\ (~IsBlank(v_val) /\ ParseFloat(str(v_val)).ok) => Stored = v_val

\* A timestamp written with a space has been sanitized and is stored in
\* another form than it came in, the form the normalization gave.
C8_Witness ==
    /\ v_clean.set
    /\ v_key # <<>>
    /\ v_detected.set
    /\ v_detected.val = "TIMESTAMP"
    /\ v_normalized.set
    /\ Stored # v_val
    /\ Stored = v_normalized.val

\* ------------------------------------------------------------------------
\* Properties of get_column_types and sync_to_db (checked under Spec)
\* ------------------------------------------------------------------------

\* get_column_types has been called on the rows of the current table.
Called == rows # <<>> /\ pc # "resolve"

\* The upsert of the current table has been attempted.
Sent == clean_rows # <<>>

cols == column_definitions.cols

\* The rank of a SQL type in type_hierarchy, from 0.
LevelOfType(t) == Min({n \in 1..Len(type_hierarchy) : type_hierarchy[n] = t}) - 1

\* The values of column h in all rows of the batch.
ColumnValues(batch, h) ==
    {batch[j][c].v : <<j, c>> \in
        {jc \in (1..Len(batch)) \X (1..2) :
            jc[2] <= Len(batch[jc[1]]) /\ batch[jc[1]][jc[2]].k = h}}

\* The greatest of 0 and the levels of the values of column h.
MaxLevel(batch, h) ==
    Max({0} \cup {get_value_type_level(v).level : v \in ColumnValues(batch, h)})

\* C1: for every non-empty batch and every column of its first row,
\* get_column_types assigns the type whose level is the greatest of 0
\* (INTEGER) and the levels of all cells of the column: blank cells change
\* nothing, an all-blank column is BIGINT, and appending a row never lowers
\* the level of a column.
C1_ColumnTypeIsMaxLevel ==
    Called =>
        /\ ~column_definitions.raised
        /\ Len(cols) = Len(rows[1])
        /\ \A i \in 1..Len(rows[1]) :
              cols[i].t = type_hierarchy[MaxLevel(rows, rows[1][i].k) + 1]
        /\ \A r \in SyncRows :
              /\ ~get_column_types(Append(rows, r)).raised
              /\ \A i \in 1..Len(rows[1]) :
                    LevelOfType(get_column_types(Append(rows, r)).cols[i].t)
                       >= LevelOfType(cols[i].t)

\* The batch without the cells whose column the first row does not have.
FirstRowColumnsOnly(batch) ==
    [j \in 1..Len(batch) |->
        SelectSeq(batch[j], LAMBDA c : IndexOf(KeysOf(batch[1]), c.k) # 0)]

WithoutRow(batch, j) == SubSeq(batch, 1, j - 1) \o SubSeq(batch, j + 1, Len(batch))

\* C7: for every non-empty batch the mapping get_column_types returns has
\* exactly the keys of the first row, in that row's order; a column only
\* later rows have gets no entry and changes no type; a row that lacks a
\* column of the first row leaves that column's level as it is.
C7_FirstRowColumnsOnly ==
    Called =>
        /\ ~column_definitions.raised
        /\ KeysOf(cols) = KeysOf(rows[1])
        /\ column_definitions = get_column_types(FirstRowColumnsOnly(rows))
        /\ \A j \in 2..Len(rows) : \A i \in 1..Len(rows[1]) :
              IndexOf(KeysOf(rows[j]), rows[1][i].k) = 0
                 => get_column_types(WithoutRow(rows, j)).cols[i] = cols[i]

\* The value clean_rows holds for column h of row j.
StoredFor(j, h) ==
    clean_rows[j][IndexOf(KeysOf(clean_rows[j]), sanitize(h))].v

\* C2: every stored value fits the type chosen for its column: for every
\* row and every column of the first row, the sanitized value is null or a
\* value whose level is at most the level resolved for the column (a value
\* normalized in a DATE column is itself a DATE, not a TIMESTAMP).
C2_StoredValueFitsColumnType ==
    Sent =>
        \A j \in 1..Len(rows) : \A i \in 1..Len(rows[1]) :
            IndexOf(KeysOf(rows[j]), rows[1][i].k) # 0 =>
                \/ StoredFor(j, rows[1][i].k) = None
                \/ /\ ~get_value_type_level(StoredFor(j, rows[1][i].k)).raised
                   /\ get_value_type_level(StoredFor(j, rows[1][i].k)).level
                         <= LevelOfType(cols[i].t)

\* C4: once setup has succeeded, the run ends only after every table of the
\* fetch has been processed, whatever became of the tables before it, and
\* with the cursor and the connection closed.
C4_EveryTableProcessedThenClosed ==
    pc \in {"done", "crashed"} =>
        /\ pc = "done"
        /\ idx = total
        /\ ~cursor_open
        /\ ~conn_open

\* C9: every key of every row handed to the upsert is the name of a column
\* of the CREATE TABLE statement just issued for the table.
C9_InsertKeysAreCreatedColumns ==
    Sent =>
        \A j \in 1..Len(clean_rows) : \A c \in 1..Len(clean_rows[j]) :
            \E i \in 1..Len(created) : created[i].k = clean_rows[j][c].k

\* C10: within one table's iteration the upsert is attempted only after
\* DROP TABLE, CREATE TABLE, commit and NOTIFY have all succeeded, in that
\* order, in that iteration; when one of them fails the transaction is
\* rolled back and no row of the table is sent.
C10_UpsertOnlyAfterSchemaSteps ==
    /\ (pc = "insert" \/ Sent) => (steps = SchemaSteps /\ ~rolled_back)
    /\ steps \in {{}, {"drop"}, {"drop", "create"}, {"drop", "create", "commit"},
                  SchemaSteps}
    /\ outcome \in {"ok", "insert_error"} <=> Sent
    /\ outcome = "schema_error" <=> rolled_back
    /\ rolled_back => (steps # SchemaSteps /\ ~Sent /\ tx = <<>> /\ pc = "continue")

\* The second table of a run has gone through the four schema steps and its
\* rows have been sent.
C10_Witness ==
    /\ idx = 2
    /\ pc = "continue"
    /\ outcome = "ok"
    /\ steps = SchemaSteps
    /\ Sent

====
